---- MODULE Spec2Model ----
(***************************************************************************)
(* A model of the genetic algorithm for the N-queens problem:              *)
(*   src/genetics/genome.py      class Genome                              *)
(*   src/genetics/population.py  class Population                          *)
(*                                                                         *)
(* Genome objects live in a heap, chrom, indexed by object identity        *)
(* (1, 2, ...); Python's None is the identity 0.  A list of genomes is a   *)
(* sequence of identities, so that aliasing and in-place modification are  *)
(* those of the code.  Indices drawn by randint are kept 0-based as in the *)
(* code and converted where a sequence is read.                            *)
(*                                                                         *)
(* A probability is written as its numerator over RandomDen.  random()     *)
(* gives any double of [0, 1): a test  random() < p  and the roulette of   *)
(* selection() are modelled by the set of results they have over all of    *)
(* these values, the roulette with the rounding of its double arithmetic.  *)
(***************************************************************************)
EXTENDS Integers, Sequences, FiniteSets, TLC

VARIABLES
    pc,               \* position: which call is in progress / how it ended
    cfg,              \* the Population's attributes set by __init__
    chrom,            \* heap: Genome identity -> its chromosome list
    generation,       \* self.generation: list of Genome identities
    next_generation,  \* evolve's local next_generation
    max_generation,   \* evolve's argument
    finish_condition, \* evolve's argument (one of FinishConditions)
    n_generation,     \* evolve's loop index
    DEBUG,            \* evolve's argument
    steps,            \* history: generation steps completed by this evolve call
    requested,        \* history: sum of the max_generation of the evolve calls
    mutations,        \* history: number of mutate calls made by evolve
    ret,              \* what the calls made so far returned (in evolve: the
                      \* pair selection returned last in the current step;
                      \* after best_solution: the genome it returned)
    err,              \* the exception a call ended with ("" when none)
    before,           \* history: the heap when the current step / call began
    elite,            \* history: the genomes popped as elite in the current step
    gen0,             \* history: self.generation when the current step / call began
    draws             \* history: the values randint gave the last Genome call

vars == <<pc, cfg, chrom, generation, next_generation, max_generation,
          finish_condition, DEBUG, n_generation, steps, requested, mutations,
          ret, err, before, elite, gen0, draws>>

----------------------------------------------------------------------------
(* Bounds of the model *)

\* side of the chess board (N_chessboard) of the evolve, selection and genome runs
BoardN == 4
\* largest population size (n_population) of the evolve and selection runs
MaxPop == 3
\* most generations asked of one Population, over all its evolve calls
MaxGenerations == 2
\* the probability 1/2 as a numerator: probabilities are written over
\* RandomDen = 2 * RandomSlots
RandomSlots == 4
\* largest board side / population size passed to the constructor runs
MaxConstruct == 2

\* genome2 = None (no Genome object)
None == 0

----------------------------------------------------------------------------
(* Python helpers *)

Min(a, b) == IF a < b THEN a ELSE b

Max(a, b) == IF a < b THEN b ELSE a

\* s[k:] for 0 <= k
SliceFrom(s, k) == SubSeq(s, k + 1, Len(s))

\* s[:k] for 0 <= k
SliceTo(s, k) == SubSeq(s, 1, Min(k, Len(s)))

\* the list after  s[k:] = v
SliceAssign(s, k, v) == SliceTo(s, k) \o v

\* the list after  s.pop(k), 0 <= k < len(s)
Pop(s, k) == SliceTo(s, k) \o SliceFrom(s, k + 1)

\* the elements of a list
Elems(s) == {s[i] : i \in 1..Len(s)}

\* the denominator the probabilities p_c and p_m are written over
RandomDen == 2 * RandomSlots

\* the outcomes of  random() < p  for p = pNum / RandomDen, over the values of
\* random(), the doubles of [0, 1): True with a value below p, which needs
\* p > 0 (0.0 is one), False with a value not below p, which needs p < 1
Bernoulli(pNum) == {b \in BOOLEAN : IF b THEN pNum > 0 ELSE pNum < RandomDen}

----------------------------------------------------------------------------
(* genome.py: class Genome *)

\* Genome.conflict(row, column) on a chromosome list
conflict(chromosome, row, column) ==
    \E i \in (row + 1)..(Len(chromosome) - 1) :
        \/ chromosome[i + 1] = column
        \/ chromosome[i + 1] - column = i - row
        \/ chromosome[i + 1] - column = row - i

\* Genome.calculateFitness on a chromosome list: one count per column i for
\* which conflict(i, chromosome[i]) is true
calculateFitness(chromosome) ==
    Cardinality({i \in 0..(Len(chromosome) - 1) :
                    conflict(chromosome, i, chromosome[i + 1])})

\* crossOver assigning one slice after the other, the second read after the
\* first assignment
crossOverSequential(heap, a, b, cp) ==
    LET h1 == [heap EXCEPT ![b] = SliceAssign(heap[b], cp, SliceFrom(heap[a], cp))]
    IN  [h1 EXCEPT ![a] = SliceAssign(h1[a], cp, SliceFrom(h1[b], cp))]

\* the heap after  a.crossOver(b)  with crossPoint drawn as cp: both right-hand
\* sides are read first, then genome2's slice is assigned, then self's
crossOver(heap, a, b, cp) ==
    LET rhs1 == SliceFrom(heap[a], cp)
        rhs2 == SliceFrom(heap[b], cp)
        h1   == [heap EXCEPT ![b] = SliceAssign(heap[b], cp, rhs1)]
    IN  [h1 EXCEPT ![a] = SliceAssign(h1[a], cp, rhs2)]

\* the heap after  g.mutate()  with index and newValue as drawn
mutate(heap, g, index, newValue) ==
    [heap EXCEPT ![g] = [heap[g] EXCEPT ![index + 1] = newValue]]

\* the draws of randint(0, self.numberN - 1)
GeneDraws(chromosome) == 0..(Len(chromosome) - 1)

----------------------------------------------------------------------------
(* population.py: class Population *)

\* gen.calculateFitness() of the Genome object g
Fitness(heap, g) == calculateFitness(heap[g])

\* list.sort(key=fitness) is stable: g goes after the elements whose key is
\* not larger
RECURSIVE InsertByFitness(_, _, _)
InsertByFitness(heap, s, g) ==
    IF s = <<>> THEN <<g>>
    ELSE IF Fitness(heap, s[1]) <= Fitness(heap, g)
         THEN <<s[1]>> \o InsertByFitness(heap, Tail(s), g)
         ELSE <<g>> \o s

\* self.generation.sort(key=lambda gen: gen.calculateFitness())
RECURSIVE SortByFitness(_, _)
SortByFitness(heap, s) ==
    IF s = <<>> THEN <<>>
    ELSE InsertByFitness(heap, SortByFitness(heap, SubSeq(s, 1, Len(s) - 1)),
                         s[Len(s)])

\* the fitness values and the number of genomes the table RouletteShort covers
RouletteMaxFitness == 7

RouletteMaxLen == 6

\* the roulette of selection() accumulates, in doubles,
\*   sumP += (1.0 / f_i) / totalFitness,   totalFitness = sum of the 1.0 / f_i,
\* over the genomes left, which are in ascending order of fitness.  These are
\* the lists f_0, ..., f_n-1 (n <= RouletteMaxLen, f_i in 1..RouletteMaxFitness,
\* ascending) for which the rounded sum ends below 1.0, i.e. for which the last
\* proportions[i] is at most 1 - 2^-53, a value random() takes: the values the
\* statements of lines 194-200 give for each such list
RouletteShort == {
    <<5,6>>, <<1,2,6>>, <<1,4,4>>, <<1,6,6>>, <<3,5,5>>, <<3,5,7>>,
    <<3,6,7>>, <<3,7,7>>, <<5,5,7>>, <<6,7,7>>, <<1,1,1,3>>, <<1,1,2,2>>,
    <<1,1,2,5>>, <<1,1,3,3>>, <<1,1,3,5>>, <<1,1,4,5>>, <<1,1,4,7>>,
    <<1,1,5,7>>, <<1,2,6,7>>, <<1,3,4,6>>, <<1,3,6,6>>, <<1,4,4,4>>,
    <<1,4,6,7>>, <<1,5,6,7>>, <<1,6,6,6>>, <<2,2,2,6>>, <<2,2,4,4>>,
    <<2,2,6,6>>, <<2,4,6,7>>, <<3,3,5,6>>, <<3,3,5,7>>, <<4,5,5,7>>,
    <<4,5,7,7>>, <<5,5,5,6>>, <<5,6,6,7>>, <<6,6,6,7>>, <<6,6,7,7>>,
    <<1,1,1,1,7>>, <<1,1,1,2,5>>, <<1,1,1,3,4>>, <<1,1,1,3,7>>,
    <<1,1,1,4,4>>, <<1,1,1,5,5>>, <<1,1,1,5,7>>, <<1,1,2,2,2>>,
    <<1,1,2,2,7>>, <<1,1,2,3,4>>, <<1,1,2,3,5>>, <<1,1,2,3,7>>,
    <<1,1,2,5,7>>, <<1,1,3,3,3>>, <<1,1,3,3,4>>, <<1,1,3,3,5>>,
    <<1,1,3,4,5>>, <<1,1,3,4,7>>, <<1,1,3,5,5>>, <<1,1,3,5,6>>,
    <<1,1,4,4,5>>, <<1,1,4,5,5>>, <<1,1,4,5,6>>, <<1,1,5,5,5>>,
    <<1,1,5,5,7>>, <<1,2,2,2,2>>, <<1,2,2,2,5>>, <<1,2,2,3,3>>,
    <<1,2,2,3,5>>, <<1,2,2,4,5>>, <<1,2,2,4,7>>, <<1,2,2,5,7>>,
    <<1,2,3,7,7>>, <<1,2,4,5,6>>, <<1,2,4,5,7>>, <<1,2,4,6,6>>,
    <<1,2,4,6,7>>, <<1,2,5,5,5>>, <<1,2,6,6,7>>, <<1,2,6,7,7>>,
    <<1,3,4,6,7>>, <<1,3,6,6,7>>, <<1,4,4,4,7>>, <<1,4,4,5,5>>,
    <<1,4,4,5,6>>, <<1,4,4,6,7>>, <<1,4,6,6,6>>, <<1,4,6,6,7>>,
    <<1,5,5,5,6>>, <<1,5,6,6,6>>, <<1,5,6,6,7>>, <<1,6,6,6,6>>,
    <<1,6,6,6,7>>, <<2,2,2,6,7>>, <<2,2,3,4,6>>, <<2,2,3,6,6>>,
    <<2,2,4,4,4>>, <<2,2,4,6,7>>, <<2,2,5,6,7>>, <<2,2,6,6,6>>,
    <<2,3,3,3,6>>, <<2,3,4,5,6>>, <<2,4,4,4,4>>, <<2,4,4,6,6>>,
    <<2,5,5,6,6>>, <<3,3,3,4,4>>, <<3,3,3,6,6>>, <<3,3,5,5,6>>,
    <<3,3,5,6,6>>, <<3,3,5,6,7>>, <<3,5,5,5,6>>, <<3,5,5,6,7>>,
    <<4,4,4,6,7>>, <<4,5,5,5,6>>, <<4,5,5,5,7>>, <<5,5,5,6,7>>,
    <<6,7,7,7,7>>, <<1,1,1,1,1,1>>, <<1,1,1,1,1,5>>, <<1,1,1,1,1,7>>,
    <<1,1,1,1,2,6>>, <<1,1,1,1,2,7>>, <<1,1,1,1,3,5>>, <<1,1,1,1,4,6>>,
    <<1,1,1,1,4,7>>, <<1,1,1,1,5,5>>, <<1,1,1,1,5,6>>, <<1,1,1,1,5,7>>,
    <<1,1,1,1,6,6>>, <<1,1,1,1,6,7>>, <<1,1,1,1,7,7>>, <<1,1,1,2,2,7>>,
    <<1,1,1,2,3,3>>, <<1,1,1,2,3,4>>, <<1,1,1,2,3,7>>, <<1,1,1,2,4,5>>,
    <<1,1,1,2,6,6>>, <<1,1,1,3,3,5>>, <<1,1,1,3,3,6>>, <<1,1,1,3,4,4>>,
    <<1,1,1,3,4,5>>, <<1,1,1,3,5,5>>, <<1,1,1,3,5,6>>, <<1,1,1,3,5,7>>,
    <<1,1,1,3,7,7>>, <<1,1,1,4,4,5>>, <<1,1,1,4,6,6>>, <<1,1,1,5,5,6>>,
    <<1,1,1,5,5,7>>, <<1,1,1,5,6,7>>, <<1,1,1,7,7,7>>, <<1,1,2,2,2,4>>,
    <<1,1,2,2,2,5>>, <<1,1,2,2,2,7>>, <<1,1,2,2,3,5>>, <<1,1,2,2,3,6>>,
    <<1,1,2,2,4,4>>, <<1,1,2,2,5,5>>, <<1,1,2,2,6,7>>, <<1,1,2,3,3,3>>,
    <<1,1,2,3,3,4>>, <<1,1,2,3,3,5>>, <<1,1,2,3,3,7>>, <<1,1,2,3,4,4>>,
    <<1,1,2,3,4,5>>, <<1,1,2,3,4,7>>, <<1,1,2,3,5,5>>, <<1,1,2,3,5,7>>,
    <<1,1,2,3,6,7>>, <<1,1,2,3,7,7>>, <<1,1,2,4,5,7>>, <<1,1,2,5,5,5>>,
    <<1,1,2,5,5,7>>, <<1,1,3,3,3,3>>, <<1,1,3,3,3,4>>, <<1,1,3,3,3,5>>,
    <<1,1,3,3,3,6>>, <<1,1,3,3,3,7>>, <<1,1,3,3,4,5>>, <<1,1,3,3,4,6>>,
    <<1,1,3,3,4,7>>, <<1,1,3,3,5,5>>, <<1,1,3,3,5,6>>, <<1,1,3,3,5,7>>,
    <<1,1,3,3,7,7>>, <<1,1,3,4,4,4>>, <<1,1,3,4,4,5>>, <<1,1,3,4,4,7>>,
    <<1,1,3,4,5,5>>, <<1,1,3,5,5,5>>, <<1,1,3,5,5,7>>, <<1,1,3,5,6,7>>,
    <<1,1,3,5,7,7>>, <<1,1,4,4,4,7>>, <<1,1,4,4,5,5>>, <<1,1,4,4,5,7>>,
    <<1,1,4,5,5,5>>, <<1,1,4,5,5,7>>, <<1,1,5,5,5,5>>, <<1,1,5,5,5,6>>,
    <<1,1,5,5,5,7>>, <<1,2,2,2,2,2>>, <<1,2,2,2,2,7>>, <<1,2,2,2,3,4>>,
    <<1,2,2,2,3,5>>, <<1,2,2,2,3,7>>, <<1,2,2,2,5,7>>, <<1,2,2,3,3,3>>,
    <<1,2,2,3,3,4>>, <<1,2,2,3,3,5>>, <<1,2,2,3,4,5>>, <<1,2,2,3,4,7>>,
    <<1,2,2,3,5,5>>, <<1,2,2,3,5,6>>, <<1,2,2,4,4,5>>, <<1,2,2,4,5,5>>,
    <<1,2,2,4,5,6>>, <<1,2,2,5,5,5>>, <<1,2,2,5,5,7>>, <<1,2,3,3,4,5>>,
    <<1,2,3,3,5,6>>, <<1,2,3,5,5,7>>, <<1,2,3,7,7,7>>, <<1,2,4,4,4,5>>,
    <<1,2,4,4,4,7>>, <<1,2,4,4,5,7>>, <<1,2,4,5,7,7>>, <<1,2,4,6,6,6>>,
    <<1,2,4,6,6,7>>, <<1,2,4,6,7,7>>, <<1,2,5,5,5,5>>, <<1,2,6,6,6,6>>,
    <<1,2,6,6,6,7>>, <<1,2,6,6,7,7>>, <<1,2,6,7,7,7>>, <<1,3,3,3,3,5>>,
    <<1,3,3,3,4,4>>, <<1,3,3,3,4,5>>, <<1,3,3,4,4,5>>, <<1,3,3,6,7,7>>,
    <<1,3,4,4,4,5>>, <<1,3,4,4,7,7>>, <<1,3,4,5,6,7>>, <<1,3,4,6,6,6>>,
    <<1,3,4,6,6,7>>, <<1,3,6,6,6,7>>, <<1,3,6,6,7,7>>, <<1,4,4,4,5,6>>,
    <<1,4,4,4,5,7>>, <<1,4,4,4,6,6>>, <<1,4,4,4,6,7>>, <<1,4,4,6,7,7>>,
    <<1,4,5,6,7,7>>, <<1,4,6,6,6,6>>, <<1,4,6,6,6,7>>, <<1,4,6,6,7,7>>,
    <<1,5,5,5,5,6>>, <<1,5,5,5,6,6>>, <<1,5,5,6,7,7>>, <<1,5,6,6,6,6>>,
    <<1,5,6,6,6,7>>, <<1,6,6,6,6,6>>, <<1,6,6,6,6,7>>, <<1,6,6,6,7,7>>,
    <<1,6,6,7,7,7>>, <<2,2,2,2,2,2>>, <<2,2,2,2,2,5>>, <<2,2,2,2,3,3>>,
    <<2,2,2,2,3,5>>, <<2,2,2,2,4,5>>, <<2,2,2,2,4,7>>, <<2,2,2,2,5,7>>,
    <<2,2,2,3,7,7>>, <<2,2,2,4,5,6>>, <<2,2,2,4,5,7>>, <<2,2,2,4,6,6>>,
    <<2,2,2,4,6,7>>, <<2,2,2,5,5,5>>, <<2,2,2,6,6,7>>, <<2,2,2,6,7,7>>,
    <<2,2,3,4,6,7>>, <<2,2,3,6,6,7>>, <<2,2,4,4,4,7>>, <<2,2,4,4,5,5>>,
    <<2,2,4,4,5,6>>, <<2,2,4,4,6,7>>, <<2,2,4,6,6,6>>, <<2,2,4,6,6,7>>,
    <<2,2,5,5,5,6>>, <<2,2,5,6,6,6>>, <<2,2,5,6,6,7>>, <<2,2,6,6,6,6>>,
    <<2,2,6,6,6,7>>, <<2,3,3,3,3,5>>, <<2,3,3,6,6,6>>, <<2,3,4,4,4,6>>,
    <<2,3,4,5,6,6>>, <<2,3,4,6,6,6>>, <<2,3,4,6,6,7>>, <<2,3,5,6,6,7>>,
    <<2,4,4,4,4,4>>, <<2,4,4,4,6,7>>, <<2,4,4,5,6,7>>, <<2,4,4,6,6,6>>,
    <<2,4,5,5,6,6>>, <<2,4,5,6,6,6>>, <<2,4,6,7,7,7>>, <<3,3,3,3,4,6>>,
    <<3,3,3,3,6,6>>, <<3,3,3,4,4,4>>, <<3,3,3,4,6,6>>, <<3,3,3,4,6,7>>,
    <<3,3,3,5,6,7>>, <<3,3,3,6,6,6>>, <<3,3,3,6,6,7>>, <<3,3,4,5,5,5>>,
    <<3,3,4,5,5,6>>, <<3,3,4,5,6,6>>, <<3,3,4,7,7,7>>, <<3,3,5,6,6,6>>,
    <<3,4,4,4,4,6>>, <<3,4,4,4,5,6>>, <<3,4,6,6,6,6>>, <<3,4,6,6,6,7>>,
    <<3,5,5,5,6,6>>, <<3,5,5,6,6,6>>, <<4,4,4,4,4,4>>, <<4,4,4,4,6,6>>,
    <<4,4,5,5,6,6>>, <<4,5,5,5,5,6>>, <<4,5,5,5,6,6>>, <<4,5,6,6,7,7>>,
    <<5,5,5,6,6,6>>, <<5,5,5,6,7,7>>}

\* a list of fitness values RouletteShort decides
RouletteCovered(fits) ==
    /\ Len(fits) <= RouletteMaxLen
    /\ \A i \in 1..Len(fits) : fits[i] \in 1..RouletteMaxFitness

\* the results of the roulette of selection() over the values of random():
\* fits are the fitness values (none 0) of the genomes left, the result is the
\* index i of the first section with  selection < proportions[i], or -1 when
\* the scan ends without one.  Each section is longer than 0, so each index is
\* the result for some value; the scan ends without one on an empty list and
\* on a list whose last proportion is below 1.0.  A list outside the table has
\* no result here.
RouletteIndices(fits) ==
    IF RouletteCovered(fits)
    THEN (0..(Len(fits) - 1))
            \cup (IF fits = <<>> \/ fits \in RouletteShort THEN {-1} ELSE {})
    ELSE {CHOOSE i \in {} : TRUE}

\* the draws of randint(0, len(self.generation) - 1); on an empty list randint
\* raises before a value is drawn and the draw is not used
IndexDraws(gen) == 0..Max(Len(gen) - 1, 0)

\* the genomes left in the sorted list after the tournament of selection()
\* popped the genome at min(i1, i2)
TournamentRest(heap, gen, i1, i2) == Pop(SortByFitness(heap, gen), Min(i1, i2))

\* Population.selection() on the list gen with the tournament indices i1, i2
\* and the roulette ending at index r (-1: at none): the exception raised (""
\* for none), the list left in self.generation, and the two values returned.
\* A None in the list makes the key function of the sort raise, which leaves
\* the list as it was.
selection(heap, gen, i1, i2, r) ==
    IF None \in Elems(gen)
    THEN [err |-> "AttributeError", generation |-> gen,
          genome1 |-> None, genome2 |-> None]
    ELSE
    LET sorted == SortByFitness(heap, gen)
    IN  IF Len(sorted) = 0
        THEN [err |-> "ValueError", generation |-> sorted,
              genome1 |-> None, genome2 |-> None]
        ELSE
        LET genome1 == sorted[Min(i1, i2) + 1]
            rest    == TournamentRest(heap, gen, i1, i2)
        IN  IF \E i \in 1..Len(rest) : Fitness(heap, rest[i]) = 0
            THEN [err |-> "ZeroDivisionError", generation |-> rest,
                  genome1 |-> genome1, genome2 |-> None]
            ELSE IF r = -1
                 THEN [err |-> "", generation |-> rest,
                       genome1 |-> genome1, genome2 |-> None]
                 ELSE [err |-> "", generation |-> Pop(rest, r),
                       genome1 |-> genome1, genome2 |-> rest[r + 1]]

\* the results the roulette can have after the tournament drew i1, i2 (-1
\* stands for the roulette not reached)
RouletteDraws(heap, gen, i1, i2) ==
    IF None \in Elems(gen) \/ gen = <<>> THEN {-1}
    ELSE LET rest == TournamentRest(heap, gen, i1, i2)
             fits == [i \in 1..Len(rest) |-> Fitness(heap, rest[i])]
         IN  IF \E i \in 1..Len(rest) : fits[i] = 0 THEN {-1}
             ELSE RouletteIndices(fits)

\* what selection() can do on the list gen, over every draw of the tournament
\* indices and every value of random()
Selections(heap, gen) ==
    UNION {{selection(heap, gen, i1, i2, r) :
                r \in RouletteDraws(heap, gen, i1, i2)} :
           i1 \in IndexDraws(gen), i2 \in IndexDraws(gen)}

\* PopElite reading the elite by index and leaving it in self.generation
PopEliteKept(sorted, elite_len) ==
    LET k == Max(Min(elite_len, Len(sorted)), 0)
    IN  [popped |-> SliceTo(sorted, k),
         left   |-> sorted,
         raised |-> elite_len > Len(sorted)]

\* [self.generation.pop(0) for _ in range(self.elite_len)] on the sorted list:
\* the genomes popped, the list left, and whether pop(0) met an empty list
PopElite(sorted, elite_len) ==
    LET k == Max(Min(elite_len, Len(sorted)), 0)
    IN  [popped |-> SliceTo(sorted, k),
         left   |-> SliceFrom(sorted, k),
         raised |-> elite_len > Len(sorted)]

\* the finish_condition arguments followed: the default  lambda x: False,
\* and a predicate true of a generation whose best fitness is at most 1
FinishConditions == {"never", "best_at_most_1"}

\* finish_condition(self.generation)
FinishHolds(fc, heap, gen) ==
    /\ fc = "best_at_most_1"
    /\ \E i \in 1..Len(gen) : Fitness(heap, gen[i]) <= 1

----------------------------------------------------------------------------
(* The populations the runs start from.  initRandomPopulation accepts every *)
(* list of chromosomes over 1..N (see ConstructedPopulations), so each of   *)
(* these is a population the constructor can return.                        *)

\* a board without attacks, for the sides 4 and 5: the even rows, then the odd
SeedSolution ==
    [i \in 1..BoardN |->
        IF 2 * i <= BoardN THEN 2 * i ELSE 2 * (i - BoardN \div 2) - 1]

\* the first half of SeedSolution, then row 1
SeedHead ==
    [i \in 1..BoardN |-> IF i <= BoardN \div 2 THEN SeedSolution[i] ELSE 1]

\* row 1, then the second half of SeedSolution
SeedTail ==
    [i \in 1..BoardN |-> IF i <= BoardN \div 2 THEN 1 ELSE SeedSolution[i]]

\* every queen in row 1
SeedRow == [i \in 1..BoardN |-> 1]

\* every queen on the main diagonal
SeedDiagonal == [i \in 1..BoardN |-> i]

Seeds == <<SeedHead, SeedTail, SeedRow, SeedSolution, SeedDiagonal>>

\* the places of Seeds a population starts at
SeedOffsets == {0, 1, 2}

\* the heap of n genomes holding the seeds from offset o on, cyclically
SeedHeap(n, o) == [g \in 1..n |-> Seeds[((g - 1 + o) % Len(Seeds)) + 1]]

\* the list of the genomes 1..n
Identities(n) == [g \in 1..n |-> g]

\* the heap of n genomes, the first half holding SeedHead, the others SeedTail
SeedHalves(n) == [g \in 1..n |-> IF 2 * g <= n THEN SeedHead ELSE SeedTail]

\* every chromosome list of length n over 1..n
Chromosomes(n) == [1..n -> 1..n]

\* the attributes of the populations evolve is run on: each satisfies the
\* constructor's documented preconditions
EvolveConfigs ==
    {c \in [N_chessboard : {BoardN},
            fenotypes    : 1..MaxPop,
            elitism      : BOOLEAN,
            elite_len    : 0..MaxPop,
            p_c          : {0, RandomSlots, RandomDen},
            p_m          : {0, RandomSlots}] :
        /\ c.elite_len <= c.fenotypes
        /\ ~c.elitism => c.elite_len = 0}

----------------------------------------------------------------------------
(* Population.evolve *)

\* the numbers of generations asked, over all its evolve calls, of a
\* Population with p_m > 0: its offspring are followed through one generation
MutatedGenerations == {0, 1}

\* the positions between two calls: a Population object exists and no method
\* of it is running
Callable == {"idle", "done", "raised", "best", "best_raised"}

\* a constructed Population on which no method has been called
Init ==
    /\ pc = "idle"
    /\ cfg \in EvolveConfigs
    /\ \E o \in SeedOffsets : chrom = SeedHeap(cfg.fenotypes, o)
    /\ generation = Identities(cfg.fenotypes)
    /\ next_generation = <<>>
    /\ max_generation = 0
    /\ finish_condition = "never"
    /\ DEBUG = FALSE
    /\ n_generation = 0
    /\ steps = 0
    /\ requested = 0
    /\ mutations = 0
    /\ ret = <<>>
    /\ err = ""
    /\ before = chrom
    /\ elite = <<>>
    /\ gen0 = generation
    /\ draws = <<>>

\* the call evolve(max_generation, finish_condition, DEBUG), the first or a
\* later one on the same object; range(0) runs no step, and evolve(0) is
\* called with the default arguments only
EvolveCall ==
    /\ pc \in Callable
    /\ \E m \in 0..MaxGenerations, fc \in FinishConditions, d \in BOOLEAN :
        /\ requested + m <= MaxGenerations
        /\ cfg.p_m > 0 => requested + m \in MutatedGenerations
        /\ m = 0 => fc = "never" /\ ~d
        /\ max_generation' = m
        /\ finish_condition' = fc
        /\ DEBUG' = d
        /\ requested' = requested + m
        /\ pc' = IF m = 0 THEN "done" ELSE "loop"
    /\ n_generation' = 0
    /\ next_generation' = <<>>
    /\ steps' = 0
    /\ ret' = <<>>
    /\ err' = ""
    /\ UNCHANGED <<cfg, chrom, generation, mutations, before, elite, gen0, draws>>

\* the head of one generation step: next_generation = [] and the elitism
\* branch, whose sort raises on a None left in self.generation
GenerationStart ==
    /\ pc = "loop"
    /\ before' = chrom
    /\ gen0' = generation
    /\ ret' = <<>>
    /\ IF cfg.elitism /\ None \in Elems(generation)
       THEN /\ elite' = <<>>
            /\ next_generation' = <<>>
            /\ pc' = "raised"
            /\ err' = "AttributeError"
            /\ UNCHANGED generation
       ELSE IF cfg.elitism
       THEN LET e == PopElite(SortByFitness(chrom, generation), cfg.elite_len)
            IN  /\ generation' = e.left
                /\ elite' = e.popped
                /\ next_generation' = IF e.raised THEN <<>> ELSE e.popped
                /\ pc' = IF e.raised THEN "raised" ELSE "breeding"
                /\ err' = IF e.raised THEN "IndexError" ELSE ""
       ELSE /\ elite' = <<>>
            /\ next_generation' = <<>>
            /\ pc' = "breeding"
            /\ UNCHANGED <<generation, err>>
    /\ UNCHANGED <<cfg, chrom, max_generation, finish_condition, DEBUG,
                   n_generation, steps, requested, mutations, draws>>

\* the outcomes of  if random() < self.p_m: child.mutate()  on the heap h after
\* m mutate calls: the heap and the count of mutate calls
MutationOutcomes(h, m, g) ==
    {[heap |-> h, count |-> m] : x \in Bernoulli(cfg.p_m) \ {TRUE}}
    \cup {[heap |-> mutate(h, g, index, newValue), count |-> m + 1] :
             index \in IF TRUE \in Bernoulli(cfg.p_m)
                       THEN GeneDraws(h[g]) ELSE {},
             newValue \in GeneDraws(h[g])}

\* one pass of the loop  while len(next_generation) < self.fenotypes
Breed ==
    /\ pc = "breeding"
    /\ Len(next_generation) < cfg.fenotypes
    /\ \E s \in Selections(chrom, generation) :
            /\ generation' = s.generation
            /\ ret' = <<s.genome1, s.genome2>>
            /\ IF s.err # ""
               THEN /\ pc' = "raised"
                    /\ err' = s.err
                    /\ UNCHANGED <<chrom, next_generation, mutations>>
               ELSE \E cross \in Bernoulli(cfg.p_c) :
                    IF ~cross /\ DEBUG /\ s.genome2 = None
                    THEN \* the logging call reads parent_b.chromosome
                         /\ pc' = "raised"
                         /\ err' = "AttributeError"
                         /\ UNCHANGED <<chrom, next_generation, mutations>>
                    ELSE IF ~cross
                    THEN /\ next_generation' =
                               next_generation \o <<s.genome1, s.genome2>>
                         /\ UNCHANGED <<pc, err, chrom, mutations>>
                    ELSE IF chrom[s.genome1] = <<>>
                    THEN \* crossOver's randint(0, -1)
                         /\ pc' = "raised"
                         /\ err' = "ValueError"
                         /\ UNCHANGED <<chrom, next_generation, mutations>>
                    ELSE IF s.genome2 = None
                    THEN \* parent_a.crossOver(None) reads None.chromosome
                         /\ pc' = "raised"
                         /\ err' = "AttributeError"
                         /\ UNCHANGED <<chrom, next_generation, mutations>>
                    ELSE \E cp \in GeneDraws(chrom[s.genome1]) :
                         LET h0 == crossOver(chrom, s.genome1, s.genome2, cp)
                         IN  \E ma \in MutationOutcomes(h0, mutations, s.genome1) :
                             \E mb \in MutationOutcomes(ma.heap, ma.count, s.genome2) :
                                /\ chrom' = mb.heap
                                /\ mutations' = mb.count
                                /\ next_generation' =
                                      next_generation \o <<s.genome1, s.genome2>>
                                /\ UNCHANGED <<pc, err>>
    /\ UNCHANGED <<cfg, max_generation, finish_condition, DEBUG, n_generation,
                   steps, requested, before, elite, gen0, draws>>

\* the tail of one generation step: the new generation replaces the old, its
\* fitness values are computed, and the loop ends or goes on
EndGeneration ==
    /\ pc = "breeding"
    /\ Len(next_generation) >= cfg.fenotypes
    /\ generation' = next_generation
    /\ IF None \in Elems(next_generation)
       THEN \* x.calculateFitness() on None
            /\ pc' = "raised"
            /\ err' = "AttributeError"
            /\ UNCHANGED <<n_generation, steps>>
       ELSE IF next_generation = <<>>
       THEN \* min([])
            /\ pc' = "raised"
            /\ err' = "ValueError"
            /\ UNCHANGED <<n_generation, steps>>
       ELSE /\ steps' = steps + 1
            /\ err' = ""
            /\ IF \/ \E i \in 1..Len(next_generation) :
                        Fitness(chrom, next_generation[i]) = 0
                  \/ FinishHolds(finish_condition, chrom, next_generation)
               THEN pc' = "done" /\ UNCHANGED n_generation
               ELSE IF n_generation + 1 < max_generation
               THEN pc' = "loop" /\ n_generation' = n_generation + 1
               ELSE pc' = "done" /\ UNCHANGED n_generation
    /\ UNCHANGED <<cfg, chrom, next_generation, max_generation,
                   finish_condition, DEBUG, requested, mutations, ret, before,
                   elite, gen0, draws>>

\* the call best_solution(): the generation is sorted in place and its first
\* genome returned.  A None in the list makes the key function raise, which
\* leaves the list as it was; an empty list has no first genome.
BestSolution ==
    /\ pc \in Callable
    /\ IF None \in Elems(generation)
       THEN /\ pc' = "best_raised"
            /\ err' = "AttributeError"
            /\ UNCHANGED <<generation, ret>>
       ELSE IF generation = <<>>
       THEN /\ pc' = "best_raised"
            /\ err' = "IndexError"
            /\ UNCHANGED <<generation, ret>>
       ELSE /\ pc' = "best"
            /\ err' = ""
            /\ generation' = SortByFitness(chrom, generation)
            /\ ret' = <<generation'[1]>>
    /\ UNCHANGED <<cfg, chrom, next_generation, max_generation,
                   finish_condition, DEBUG, n_generation, steps, requested,
                   mutations, before, elite, gen0, draws>>

Next == EvolveCall \/ GenerationStart \/ Breed \/ EndGeneration \/ BestSolution

Spec == Init /\ [][Next]_vars

\* the runs of evolve on a population with elitism whose genomes may cross
InitElitism ==
    /\ Init
    /\ cfg.elitism
    /\ cfg.elite_len >= 1
    /\ chrom \in {SeedHeap(cfg.fenotypes, 0), SeedHeap(cfg.fenotypes, 1)}
    /\ cfg.p_c = RandomSlots

SpecElitism == InitElitism /\ [][Next]_vars

\* the runs of evolve on a population that holds no solution yet
InitUnsolved ==
    /\ Init
    /\ \A g \in DOMAIN chrom : Fitness(chrom, g) # 0

SpecUnsolved == InitUnsolved /\ [][Next]_vars

----------------------------------------------------------------------------
(* Population.__init__ and initRandomPopulation, followed by evolve *)

\* rand_chromosome == g for a list rand_chromosome and a Genome object g:
\* Genome defines no __eq__, and a list never equals an object of another type
ListEqualsGenome(rand_chromosome, heap, g) == FALSE

\* rand_chromosome in population
InPopulation(rand_chromosome, heap, population) ==
    \E i \in 1..Len(population) :
        ListEqualsGenome(rand_chromosome, heap, population[i])

\* the heaps initRandomPopulation(N, n) can return: genome g holds a drawn
\* chromosome that passed  while rand_chromosome in population  against the
\* genomes appended before it.  Without a genome to produce (n <= 0) the list
\* is empty; without a column (N <= 0) every chromosome is [].
ConstructedPopulations(N, n) ==
    {h \in [1..n -> Chromosomes(N)] :
        \A g \in 1..n : ~InPopulation(h[g], h, Identities(g - 1))}

\* the arguments the constructor is called with, valid and invalid ones
ConstructorArguments ==
    [N_chessboard : 0..MaxConstruct,
     fenotypes    : 0..MaxConstruct,
     elitism      : BOOLEAN,
     elite_len    : {1, MaxConstruct + 1},
     p_c          : {RandomSlots, RandomDen + RandomSlots},
     p_m          : {0 - RandomSlots, RandomSlots}]

\* the preconditions documented for the constructor's arguments
ValidArguments(c) ==
    /\ c.N_chessboard >= 1
    /\ c.fenotypes >= 1
    /\ c.p_c >= 0 /\ c.p_c <= RandomDen
    /\ c.p_m >= 0 /\ c.p_m <= RandomDen
    /\ c.elitism => c.elite_len <= c.fenotypes

\* before Population(...) is called: cfg holds the arguments
InitConstruct ==
    /\ pc = "new"
    /\ cfg \in ConstructorArguments
    /\ chrom = <<>>
    /\ generation = <<>>
    /\ next_generation = <<>>
    /\ max_generation = 0
    /\ finish_condition = "never"
    /\ DEBUG = FALSE
    /\ n_generation = 0
    /\ steps = 0
    /\ requested = 0
    /\ mutations = 0
    /\ ret = <<>>
    /\ err = ""
    /\ before = <<>>
    /\ elite = <<>>
    /\ gen0 = <<>>
    /\ draws = <<>>

\* Population.__init__: the attributes are stored as given and the generation
\* is the list initRandomPopulation returns; no argument is checked
Construct ==
    /\ pc = "new"
    /\ \E h \in ConstructedPopulations(cfg.N_chessboard, cfg.fenotypes) :
        /\ chrom' = h
        /\ generation' = Identities(Len(h))
    /\ pc' = "idle"
    /\ UNCHANGED <<cfg, next_generation, max_generation, finish_condition,
                   DEBUG, n_generation, steps, requested, mutations, ret, err,
                   before, elite, gen0, draws>>

NextConstruct == Construct \/ Next

SpecConstruct == InitConstruct /\ [][NextConstruct]_vars

----------------------------------------------------------------------------
(* Population.selection called on its own, again and again *)

\* a population of 1 .. 2 * MaxPop genomes; ret collects the pairs returned
InitSelection ==
    /\ pc = "idle"
    /\ cfg \in [N_chessboard : {BoardN}, fenotypes : 1..(2 * MaxPop),
                 elitism : {FALSE}, elite_len : {0}, p_c : {0}, p_m : {0}]
    /\ \/ \E o \in 0..(Len(Seeds) - 1) : chrom = SeedHeap(cfg.fenotypes, o)
       \/ chrom = SeedHalves(cfg.fenotypes)
    /\ generation = Identities(cfg.fenotypes)
    /\ next_generation = <<>>
    /\ max_generation = 0
    /\ finish_condition = "never"
    /\ DEBUG = FALSE
    /\ n_generation = 0
    /\ steps = 0
    /\ requested = 0
    /\ mutations = 0
    /\ ret = <<>>
    /\ err = ""
    /\ before = chrom
    /\ elite = <<>>
    /\ gen0 = generation
    /\ draws = <<>>

\* one call of selection()
SelectionCall ==
    /\ pc = "idle"
    /\ gen0' = generation
    /\ \E s \in Selections(chrom, generation) :
        /\ generation' = s.generation
        /\ err' = s.err
        /\ IF s.err # ""
           THEN pc' = "raised" /\ UNCHANGED ret
           ELSE pc' = "idle" /\ ret' = Append(ret, <<s.genome1, s.genome2>>)
    /\ UNCHANGED <<cfg, chrom, next_generation, max_generation,
                   finish_condition, DEBUG, n_generation, steps, requested,
                   mutations, before, elite, draws>>

SpecSelection == InitSelection /\ [][SelectionCall]_vars

----------------------------------------------------------------------------
(* The methods of Genome called on their own *)

\* two Genome objects: genome 1 holds any chromosome over 1..N, genome 2 a seed
InitGenome ==
    /\ pc = "genome"
    /\ cfg = [N_chessboard |-> BoardN, fenotypes |-> 2, elitism |-> FALSE,
              elite_len |-> 0, p_c |-> 0, p_m |-> 0]
    /\ \E a \in Chromosomes(BoardN), b \in Elems(Seeds) : chrom = <<a, b>>
    /\ generation = <<>>
    /\ next_generation = <<>>
    /\ max_generation = 0
    /\ finish_condition = "never"
    /\ DEBUG = FALSE
    /\ n_generation = 0
    /\ steps = 0
    /\ requested = 0
    /\ mutations = 0
    /\ ret = <<>>
    /\ err = ""
    /\ before = chrom
    /\ elite = <<>>
    /\ gen0 = <<>>
    /\ draws = <<>>

\* genome 1's calculateFitness()
CalculateFitnessCall ==
    /\ pc = "genome"
    /\ pc' = "calculateFitness"
    /\ ret' = <<calculateFitness(chrom[1])>>
    /\ UNCHANGED <<cfg, chrom, generation, next_generation, max_generation,
                   finish_condition, DEBUG, n_generation, steps, requested,
                   mutations, err, before, elite, gen0, draws>>

\* genome 1's crossOver(genome 2)
CrossOverCall ==
    /\ pc = "genome"
    /\ pc' = "crossOver"
    /\ \E crossPoint \in GeneDraws(chrom[1]) :
        /\ chrom' = crossOver(chrom, 1, 2, crossPoint)
        /\ draws' = <<crossPoint>>
    /\ ret' = <<1, 2>>
    /\ UNCHANGED <<cfg, generation, next_generation, max_generation,
                   finish_condition, DEBUG, n_generation, steps, requested,
                   mutations, err, before, elite, gen0>>

\* genome 1's mutate()
MutateCall ==
    /\ pc = "genome"
    /\ pc' = "mutate"
    /\ \E index \in GeneDraws(chrom[1]), newValue \in GeneDraws(chrom[1]) :
        /\ chrom' = mutate(chrom, 1, index, newValue)
        /\ draws' = <<index, newValue>>
    /\ UNCHANGED <<cfg, generation, next_generation, max_generation,
                   finish_condition, DEBUG, n_generation, steps, requested,
                   mutations, ret, err, before, elite, gen0>>

NextGenome == CalculateFitnessCall \/ CrossOverCall \/ MutateCall

SpecGenome == InitGenome /\ [][NextGenome]_vars

----------------------------------------------------------------------------
(* The claims *)

\* the genomes a list of returned pairs holds
Returned(pairs) == UNION {{pairs[k][1], pairs[k][2]} : k \in 1..Len(pairs)}

\* the new generation ends evolve: a fitness of 0 in it, or finish_condition
StopHolds ==
    \/ \E i \in 1..Len(generation) : Fitness(chrom, generation[i]) = 0
    \/ FinishHolds(finish_condition, chrom, generation)

\* the queens of the columns i < j (0-based) attack each other
Attack(chromosome, i, j) ==
    \/ chromosome[i + 1] = chromosome[j + 1]
    \/ chromosome[j + 1] - chromosome[i + 1] = j - i
    \/ chromosome[j + 1] - chromosome[i + 1] = i - j

\* the number of attacking pairs of columns
AttackingPairs(chromosome) ==
    Cardinality({p \in (0..(Len(chromosome) - 1)) \X (0..(Len(chromosome) - 1)) :
                    p[1] < p[2] /\ Attack(chromosome, p[1], p[2])})

RECURSIVE Power(_, _)
Power(b, e) == IF e <= 0 THEN 1 ELSE b * Power(b, e - 1)

\* C1: no generation step of evolve raises, and after each completed step the
\* generation holds exactly target_size genomes, none of them None, whatever
\* the parity of target_size - elite_count.
C1_GenerationSizeKept ==
    /\ pc # "raised"
    /\ (pc \in {"loop", "done"} /\ steps >= 1)
          => /\ Len(generation) = cfg.fenotypes
             /\ None \notin Elems(generation)

\* C2: calculateFitness returns the number of attacking pairs of columns, each
\* pair counted once ([1, 1, 1, 1] gives 6, [2, 4, 1, 3] gives 0).
C2_FitnessCountsAttackingPairs ==
    pc = "calculateFitness" => ret[1] = AttackingPairs(chrom[1])

\* C3: in every reachable state every chromosome has length N and every gene
\* lies in 1..N, also after crossOver and mutate.
C3_GenesInRange ==
    \A g \in DOMAIN chrom :
        /\ Len(chrom[g]) = cfg.N_chessboard
        /\ \A i \in 1..Len(chrom[g]) : chrom[g][i] \in 1..cfg.N_chessboard

\* C4: when N^N exceeds population_size, the generation initRandomPopulation
\* returns holds no two genomes with the same chromosome.
C4_InitialChromosomesDistinct ==
    (pc = "idle" /\ Power(cfg.N_chessboard, cfg.N_chessboard) > cfg.fenotypes)
        => \A g \in DOMAIN chrom : \A h \in DOMAIN chrom :
              g # h => chrom[g] # chrom[h]

\* C5: from a generation of even size n, n/2 calls of selection raise nothing,
\* each returns two distinct genomes (neither None) and removes exactly those
\* from the generation, no genome is returned twice, and the generation is
\* empty after the n/2 calls.
C5_SelectionExhaustsGeneration ==
    cfg.fenotypes % 2 = 0 =>
        LET n == cfg.fenotypes
            k == Len(ret)
        IN  /\ pc = "raised" => k = n \div 2
            /\ \A j \in 1..k :
                  /\ ret[j][1] # None
                  /\ ret[j][2] # None
                  /\ ret[j][1] # ret[j][2]
            /\ \A i \in 1..k : \A j \in 1..k :
                  i # j => {ret[i][1], ret[i][2]} \cap {ret[j][1], ret[j][2]} = {}
            /\ pc # "raised" =>
                  /\ Elems(generation) = (1..n) \ Returned(ret)
                  /\ Len(generation) = n - 2 * k
            /\ k = n \div 2 => generation = <<>>

\* C6: selection called on a generation of at least 2 genomes one of which has
\* fitness 0 raises nothing and returns two genomes.
C6_ZeroFitnessSelected ==
    ( /\ pc = "raised" \/ ret # <<>>
      /\ Len(gen0) >= 2
      /\ \E i \in 1..Len(gen0) : Fitness(chrom, gen0[i]) = 0 )
        => /\ err = ""
           /\ ret[Len(ret)][1] # None
           /\ ret[Len(ret)][2] # None

\* C7: every call of evolve ends after exactly min(max_generations, k) steps,
\* k the first step whose new generation has a fitness of 0 or satisfies
\* finish_condition: it ends only at the cap or at such a step, and it runs no
\* step after one.
C7_EvolveStepsCounted ==
    /\ pc = "raised" => steps = max_generation
    /\ pc = "done" => \/ steps = max_generation
                      \/ steps >= 1 /\ steps < max_generation /\ StopHolds
    /\ pc \in {"loop", "breeding"} => steps < max_generation
    /\ (pc = "loop" /\ steps >= 1) => ~StopHolds

\* C8: with elitism, in every generation step that starts from a generation of
\* at least elite_count genomes, the elite_count genomes of lowest fitness go to
\* the head of the next generation with their chromosomes as they were: they
\* are not left in the pool selection draws from, selection does not return
\* them, and no crossOver or mutate of the step changes them.
C8_ElitePreserved ==
    (cfg.elitism /\ pc \in {"breeding", "loop", "done", "raised"}
       /\ (pc \in {"loop", "done"} => steps >= 1)
       /\ Len(gen0) >= cfg.elite_len
       /\ None \notin Elems(gen0))
    => /\ Len(elite) = cfg.elite_len
       /\ Elems(elite) \subseteq Elems(gen0)
       /\ \A e \in Elems(elite) : \A g \in Elems(gen0) \ Elems(elite) :
             Fitness(before, e) <= Fitness(before, g)
       /\ \A e \in Elems(elite) :
             /\ chrom[e] = before[e]
             /\ e \notin Elems(ret)
             /\ pc \in {"breeding", "raised"} /\ generation # next_generation
                   => e \notin Elems(generation)
       /\ pc = "breeding" => SubSeq(next_generation, 1, cfg.elite_len) = elite
       /\ pc \in {"loop", "done"} => SubSeq(generation, 1, cfg.elite_len) = elite

\* a generation step with elitism has completed in which the sort moved the
\* elite to the front and a crossOver or mutate changed another genome
C8_Witness ==
    /\ cfg.elitism
    /\ pc \in {"loop", "done"}
    /\ steps >= 1
    /\ cfg.elite_len >= 1
    /\ cfg.elite_len < cfg.fenotypes
    /\ elite # SubSeq(gen0, 1, cfg.elite_len)
    /\ mutations >= 1
    /\ chrom # before

\* C9: a constructor call with invalid arguments (a size below 1, a
\* probability outside [0, 1], elitism with elite_count above the population
\* size) is rejected: it yields no Population object.
C9_InvalidArgumentsRejected ==
    pc = "idle" => ValidArguments(cfg)

\* C10: a.crossOver(b) with the cut c leaves the positions before c of both
\* chromosomes as they were and exchanges the positions from c on, returns
\* (a, b), and so keeps for every column the pair of values the two hold.
C10_CrossOverSwapsSuffixes ==
    pc = "crossOver" =>
        LET c == draws[1]
        IN  /\ ret = <<1, 2>>
            /\ Len(chrom[1]) = Len(before[1])
            /\ Len(chrom[2]) = Len(before[2])
            /\ \A i \in 0..(Len(before[1]) - 1) :
                  /\ i < c => /\ chrom[1][i + 1] = before[1][i + 1]
                             /\ chrom[2][i + 1] = before[2][i + 1]
                  /\ i >= c => /\ chrom[1][i + 1] = before[2][i + 1]
                              /\ chrom[2][i + 1] = before[1][i + 1]
                  /\ {chrom[1][i + 1], chrom[2][i + 1]}
                        = {before[1][i + 1], before[2][i + 1]}

\* a crossOver with a cut inside the chromosome has changed both genomes
C10_Witness ==
    /\ pc = "crossOver"
    /\ draws[1] >= 1
    /\ chrom[1] # before[1]
    /\ chrom[2] # before[2]
    /\ SliceTo(chrom[1], draws[1]) # SliceTo(chrom[2], draws[1])

============================================================================
